---------------------------- MODULE Spec2Model ----------------------------
(***************************************************************************)
(* Model of app/main.py: the bank term-deposit prediction API.             *)
(*                                                                         *)
(*   - module import: MODEL = None, then joblib.load under try/except      *)
(*   - InputFeatures: the pydantic request schema                          *)
(*   - GET /  (home)  and  POST /predict  (predict)                        *)
(*   - BinaryMapper and MonthMapper, the two custom transformers           *)
(*                                                                         *)
(* Numbers: balance is a real in the source and is modelled by whole       *)
(* currency units; probabilities are fixed-point, ProbScale units = 1.0;   *)
(* threshold_used is in units of 1e-4.                                     *)
(***************************************************************************)
EXTENDS Integers, Sequences, FiniteSets, TLC

VARIABLES
    phase,      \* "boot" before lines 80-87 have run, "serving" after
    MODEL,      \* the module global MODEL (line 80)
    stdout,     \* what the load block printed (lines 83, 85, 87)
    reqs,       \* per worker slot: the request in flight and its handler state
    payload,    \* schema harness: the request body under validation
    verdict,    \* schema harness: what InputFeatures made of payload
    encoded,    \* schema harness: the row after the pipeline's mappers
    X,          \* mapper harness: the DataFrame given to a transformer
    Xt,         \* mapper harness: the DataFrame the last transform returned
    last,       \* mapper harness: which transformer produced Xt ("" if none)
    categories, \* BinaryMapper.categories (line 17)
    fit_called  \* which transformers had fit called on them

serverVars == <<phase, MODEL, stdout, reqs>>
schemaVars == <<payload, verdict, encoded>>
mapperVars == <<X, Xt, last, categories, fit_called>>
vars == <<serverVars, schemaVars, mapperVars>>

(***************************************************************************)
(* Bounds of the model.                                                    *)
(***************************************************************************)
NumSlots == 2
MaxRoundErr == 1
MaxCols == 3
MaxRows == 1

Slots == 1..NumSlots

(***************************************************************************)
(* Values.                                                                 *)
(***************************************************************************)
None == "None"
Pipeline == "rf_portable_pipeline.pkl"

\* "no value here" for a slot's body, features, row or response
Absent == [absent |-> TRUE]

GET == "GET /"
POST == "POST /predict"

(***************************************************************************)
(* InputFeatures, lines 92-109.                                            *)
(***************************************************************************)
NumericFields == {"age", "balance", "duration", "campaign", "previous"}

EnumFields == {"job", "marital", "education", "default", "housing", "loan",
               "contact", "month", "poutcome"}

Fields == NumericFields \cup EnumFields

\* Field(..., ge = ...)
ge == [age |-> 18, duration |-> 0, campaign |-> 1, previous |-> 0]

\* Field(..., le = ...)
le == [age |-> 120]

\* the Literal[...] annotations
Literal ==
    [job |-> {"management", "technician", "entrepreneur", "blue-collar",
              "unknown", "retired", "admin.", "services", "self-employed",
              "unemployed", "housemaid", "student"},
     marital |-> {"married", "single", "divorced"},
     education |-> {"tertiary", "secondary", "unknown", "primary"},
     default |-> {"no", "yes"},
     housing |-> {"no", "yes"},
     loan |-> {"no", "yes"},
     contact |-> {"unknown", "cellular", "telephone"},
     month |-> {"jan", "feb", "mar", "apr", "may", "jun", "jul", "aug",
                "sep", "oct", "nov", "dec"},
     poutcome |-> {"unknown", "other", "failure", "success"}]

\* the errors pydantic reports for a request body: (field, error type)
MissingErrors(body) ==
    {<<f, "missing">> : f \in Fields \ DOMAIN body}

\* a slip: gt/lt where ge/le were meant
BoundErrors_Exclusive(body) ==
    {<<f, "greater_than">> :
        f \in {g \in DOMAIN ge \cap DOMAIN body : body[g] <= ge[g]}}
    \cup
    {<<f, "less_than">> :
        f \in {g \in DOMAIN le \cap DOMAIN body : body[g] >= le[g]}}

BoundErrors(body) ==
    {<<f, "greater_than_equal">> :
        f \in {g \in DOMAIN ge \cap DOMAIN body : body[g] < ge[g]}}
    \cup
    {<<f, "less_than_equal">> :
        f \in {g \in DOMAIN le \cap DOMAIN body : body[g] > le[g]}}

\* a slip: the enum fields declared as plain str
LiteralErrors_Unchecked(body) == {}

LiteralErrors(body) ==
    {<<f, "literal_error">> :
        f \in {g \in EnumFields \cap DOMAIN body : body[g] \notin Literal[g]}}

ValidationErrors(body) ==
    MissingErrors(body) \cup BoundErrors(body) \cup LiteralErrors(body)

\* the validated model object: the declared fields only (extra keys ignored)
InputFeatures(body) == [f \in Fields |-> body[f]]

\* features.model_dump(), line 135
model_dump(features) == [f \in DOMAIN features |-> features[f]]

(***************************************************************************)
(* Request bodies the clients send.                                        *)
(***************************************************************************)
Example ==
    [age |-> 35, balance |-> 1500, duration |-> 200, campaign |-> 2,
     previous |-> 0, job |-> "technician", marital |-> "married",
     education |-> "secondary", default |-> "no", housing |-> "yes",
     loan |-> "no", contact |-> "cellular", month |-> "may",
     poutcome |-> "unknown"]

Drop(body, f) == [k \in DOMAIN body \ {f} |-> body[k]]

RequestBodies ==
    { Example,
      [Example EXCEPT !["age"] = 120, !["default"] = "yes", !["month"] = "dec"],
      ("day" :> 17) @@ ("pdays" :> 300) @@ Example,
      [Example EXCEPT !["age"] = 17],
      [Example EXCEPT !["month"] = "january"],
      Drop(Example, "housing") }

(***************************************************************************)
(* DataFrames given to the transformers: a sequence of columns, each a     *)
(* name and its values.  A mapped value is Num(n); NaN is pandas' marker   *)
(* for a value the dictionary does not hold.                               *)
(***************************************************************************)
Num(n) == [num |-> n]
NaN == [nan |-> TRUE]

\* Series.map(dict): the dictionary's value, NaN for a key it does not hold
SeriesMap(values, dict) ==
    [i \in 1..Len(values) |->
        IF values[i] \in DOMAIN dict THEN Num(dict[values[i]]) ELSE NaN]

(***************************************************************************)
(* BinaryMapper, lines 11-42.                                              *)
(***************************************************************************)
\* a slip: the keys capitalised
BinaryMapper_init_Capitalised == [Yes |-> 1, No |-> 0]

\* __init__'s default argument, line 16
BinaryMapper_init == [yes |-> 1, no |-> 0]

\* fit, lines 19-24: returns self; what it leaves in self.categories
BinaryMapper_fit(self_categories, df) == self_categories

\* a slip: a lookup with a default, col.map(lambda v: categories.get(v, 0))
BinaryMapper_transform_DefaultZero(self_categories, df) ==
    [c \in 1..Len(df) |->
        [name |-> df[c].name,
         values |-> [i \in 1..Len(df[c].values) |->
                       IF df[c].values[i] \in DOMAIN self_categories
                       THEN [num |-> self_categories[df[c].values[i]]]
                       ELSE [num |-> 0]]]]

\* transform, line 34: X.apply(lambda col: col.map(self.categories))
BinaryMapper_transform(self_categories, df) ==
    [c \in 1..Len(df) |->
        [name |-> df[c].name, values |-> SeriesMap(df[c].values, self_categories)]]

(***************************************************************************)
(* MonthMapper, lines 44-72.                                               *)
(***************************************************************************)
\* line 49
month_order ==
    <<"jan", "feb", "mar", "apr", "may", "jun", "jul", "aug", "sep", "oct",
      "nov", "dec">>

\* a slip: enumerate's index used as it is, {month: i for i, month in ...}
month_map_ZeroBased ==
    [month \in {month_order[k] : k \in 1..Len(month_order)} |->
        (CHOOSE k \in 1..Len(month_order) : month_order[k] = month) - 1]

\* line 51: {month: i + 1 for i, month in enumerate(self.month_order)}
\* (enumerate counts from 0, a sequence here from 1; a repeated key keeps
\* its last value)
month_map ==
    [month \in {month_order[k] : k \in 1..Len(month_order)} |->
        LET k == CHOOSE k \in 1..Len(month_order) :
                    /\ month_order[k] = month
                    /\ \A j \in 1..Len(month_order) : month_order[j] = month => j <= k
            i == k - 1
        IN  i + 1]

\* transform, line 65: X.iloc[:, 0].map(self.month_map).to_frame()
MonthMapper_transform(df) ==
    << [name |-> df[1].name, values |-> SeriesMap(df[1].values, month_map)] >>

(***************************************************************************)
(* The tables the mapper harness draws from.                               *)
(***************************************************************************)
SeqsUpTo(S, n) == UNION { [1..k -> S] : k \in 0..n }

ColumnNames == <<"default", "housing", "loan", "month", "contact">>

BinaryVocab == {"yes", "no", "unknown"}

MonthVocab == {month_order[k] : k \in 1..Len(month_order)} \cup {"january", "JAN"}

\* c columns of r rows each over the yes/no vocabulary
BinaryTables ==
    UNION { { [c \in 1..nc |-> [name |-> ColumnNames[c], values |-> cells[c]]] :
                cells \in [1..nc -> [1..nr -> BinaryVocab]] } :
            nc \in 0..MaxCols, nr \in 0..MaxRows }

\* a month column, alone or followed by a second column
MonthTables ==
    UNION { { <<[name |-> "month", values |-> ms]>>,
              <<[name |-> "month", values |-> ms],
                [name |-> "contact", values |-> [r \in 1..Len(ms) |-> "cellular"]]>> } :
            ms \in SeqsUpTo(MonthVocab, MaxRows) }

MapperIdle ==
    /\ X = <<>>
    /\ Xt = <<>>
    /\ last = ""
    /\ categories = BinaryMapper_init
    /\ fit_called = {}

(***************************************************************************)
(* The bodies the schema harness draws from.                               *)
(***************************************************************************)
AgeValues == {-1, 0, 17, 18, 19, 35, 119, 120, 121, 1000}
BalanceValues == {-1000000, -1, 0, 1500, 1000000}
DurationValues == {-1, 0, 1, 200}
CampaignValues == {-1, 0, 1, 2}
PreviousValues == {-1, 0, 1}
YesNoValues == {"yes", "no", "unknown", "Yes"}

SchemaPayloads ==
    { [Example EXCEPT !["age"] = a, !["balance"] = b, !["duration"] = d,
                      !["campaign"] = c, !["previous"] = p] :
        a \in AgeValues, b \in BalanceValues, d \in DurationValues,
        c \in CampaignValues, p \in PreviousValues }
    \cup
    { [Example EXCEPT !["default"] = df, !["housing"] = h, !["loan"] = l,
                      !["month"] = m] :
        df \in YesNoValues, h \in YesNoValues, l \in YesNoValues, m \in MonthVocab }
    \cup
    { [Example EXCEPT ![f] = v] :
        f \in EnumFields,
        v \in {"unknown", "married", "primary", "student", "telephone", "other", "Unknown"} }
    \cup
    { Drop(Example, f) : f \in Fields }
    \cup
    { ("day" :> 17) @@ ("pdays" :> 300) @@ Example }

NoVerdict == [validated |-> FALSE, errors |-> {}, features |-> Absent]

SchemaIdle ==
    /\ payload = Example
    /\ verdict = NoVerdict
    /\ encoded = Absent

(***************************************************************************)
(* Module import, lines 80-87.                                             *)
(***************************************************************************)
LoadOutcomes == {"ok", "FileNotFoundError", "Exception"}

\* a slip: only the missing file leaves MODEL unset
LoadedModel_KeepsOnError(outcome) ==
    IF outcome = "FileNotFoundError" THEN None ELSE Pipeline

LoadedModel(outcome) == IF outcome = "ok" THEN Pipeline ELSE None

LoadMessage(outcome) ==
    CASE outcome = "ok" -> "Modelo 'rf_pipeline.pkl' carregado com sucesso."
      [] outcome = "FileNotFoundError" -> "ERRO CRITICO: Arquivo de modelo nao encontrado"
      [] OTHER -> "Erro ao carregar o modelo"

Idle ==
    [pc |-> "idle", method |-> "", body |-> Absent, features |-> Absent,
     row |-> Absent, proba_calls |-> 0, probas |-> <<>>, resp |-> Absent]

ServerInit ==
    /\ phase = "boot"
    /\ MODEL = None
    /\ stdout = <<>>
    /\ reqs = [s \in Slots |-> Idle]

Init == ServerInit /\ SchemaIdle /\ MapperIdle

Load ==
    /\ phase = "boot"
    /\ \E outcome \in LoadOutcomes :
         /\ MODEL' = LoadedModel(outcome)
         /\ stdout' = Append(stdout, LoadMessage(outcome))
    /\ phase' = "serving"
    /\ UNCHANGED <<reqs, schemaVars, mapperVars>>

(***************************************************************************)
(* Requests.                                                               *)
(***************************************************************************)
\* a client's request reaches a free worker
Request(s) ==
    /\ phase = "serving"
    /\ reqs[s].pc = "idle"
    /\ \/ reqs' = [reqs EXCEPT ![s] = [Idle EXCEPT !.pc = "handler", !.method = GET]]
       \/ \E body \in RequestBodies :
            reqs' = [reqs EXCEPT ![s] =
                       [Idle EXCEPT !.pc = "validate", !.method = POST, !.body = body]]
    /\ UNCHANGED <<phase, MODEL, stdout, schemaVars, mapperVars>>

\* 422 Unprocessable Entity, with field-level detail
RequestValidationError(errors) == [status |-> 422, body |-> [errors |-> errors]]

\* FastAPI builds the `features: InputFeatures` argument of predict (line 126)
Validate(s) ==
    /\ phase = "serving"
    /\ reqs[s].pc = "validate"
    /\ LET errors == ValidationErrors(reqs[s].body) IN
         IF errors # {}
         THEN reqs' = [reqs EXCEPT ![s].pc = "done",
                                   ![s].resp = RequestValidationError(errors)]
         ELSE reqs' = [reqs EXCEPT ![s].pc = "handler",
                                   ![s].features = InputFeatures(reqs[s].body)]
    /\ UNCHANGED <<phase, MODEL, stdout, schemaVars, mapperVars>>

\* a slip: the flag hard-coded
HomeResponse_AlwaysLoaded(model) ==
    [status |-> 200,
     body |-> [status |-> "ok", model_loaded |-> TRUE, api_version |-> "1.0.0"]]

\* line 124
HomeResponse(model) ==
    [status |-> 200,
     body |-> [status |-> "ok", model_loaded |-> (model # None),
               api_version |-> "1.0.0"]]

home(s) ==
    /\ phase = "serving"
    /\ reqs[s].pc = "handler"
    /\ reqs[s].method = GET
    /\ reqs' = [reqs EXCEPT ![s].pc = "done", ![s].resp = HomeResponse(MODEL)]
    /\ UNCHANGED <<phase, MODEL, stdout, schemaVars, mapperVars>>

\* line 132
HTTPException500 ==
    [status |-> 500,
     body |-> [detail |-> "Modelo nao carregado ou erro de inicializacao."]]

\* a slip: the pdays column forgotten
input_df_NoPdays(features) ==
    [c \in DOMAIN features \cup {"day"} |-> IF c = "day" THEN 1 ELSE features[c]]

\* lines 135-142: the one-row DataFrame handed to the pipeline
input_df(features) ==
    LET input_data_dict == model_dump(features)
        df == input_data_dict
        withDay == [c \in DOMAIN df \cup {"day"} |->
                      IF c = "day" THEN 1 ELSE df[c]]
    IN  [c \in DOMAIN withDay \cup {"pdays"} |->
           IF c = "pdays" THEN -1 ELSE withDay[c]]

\* fixed-point probabilities: ProbScale units are 1.0
ProbScale == 10 ^ 7

\* MODEL.predict_proba(input_df)[0]: the artifact is opaque; it answers with a
\* two-element vector [no, yes] that sums to 1.0 up to floating-point rounding
predict_proba(df) ==
    { <<p, ProbScale - p + e>> :
        p \in {0, 3761000, 6239000, ProbScale}, e \in -MaxRoundErr..MaxRoundErr }

threshold_used == 6239

\* a slip: both probabilities read from the same element
PredictResponse_SameIndex(probas) ==
    [status |-> 200,
     body |-> [prediction_probability |-> [no |-> probas[1], yes |-> probas[1]],
               threshold_used |-> threshold_used,
               description |-> "Probabilidade de subscrever ('yes') ou nao subscrever ('no') o deposito."]]

\* lines 147-157
PredictResponse(probas) ==
    LET prob_no == probas[1]
        prob_yes == probas[2]
    IN  [status |-> 200,
         body |-> [prediction_probability |-> [no |-> prob_no, yes |-> prob_yes],
                   threshold_used |-> threshold_used,
                   description |-> "Probabilidade de subscrever ('yes') ou nao subscrever ('no') o deposito."]]

\* a slip: a lazy reload when the model is missing (global MODEL; joblib.load)
predict_reload(s) ==
    /\ phase = "serving"
    /\ reqs[s].pc = "handler"
    /\ reqs[s].method = POST
    /\ IF MODEL = None
       THEN /\ \E outcome \in LoadOutcomes : MODEL' = LoadedModel(outcome)
            /\ reqs' = [reqs EXCEPT ![s].pc = "done", ![s].resp = HTTPException500]
       ELSE /\ MODEL' = MODEL
            /\ LET df == input_df(reqs[s].features) IN
                 \E probas \in predict_proba(df) :
                    reqs' = [reqs EXCEPT ![s].pc = "done",
                                         ![s].row = df,
                                         ![s].proba_calls = @ + 1,
                                         ![s].probas = probas,
                                         ![s].resp = PredictResponse(probas)]
    /\ UNCHANGED <<phase, stdout, schemaVars, mapperVars>>

predict(s) ==
    /\ phase = "serving"
    /\ reqs[s].pc = "handler"
    /\ reqs[s].method = POST
    /\ IF MODEL = None
       THEN reqs' = [reqs EXCEPT ![s].pc = "done", ![s].resp = HTTPException500]
       ELSE LET df == input_df(reqs[s].features) IN
              \E probas \in predict_proba(df) :
                 reqs' = [reqs EXCEPT ![s].pc = "done",
                                      ![s].row = df,
                                      ![s].proba_calls = @ + 1,
                                      ![s].probas = probas,
                                      ![s].resp = PredictResponse(probas)]
    /\ UNCHANGED <<phase, MODEL, stdout, schemaVars, mapperVars>>

\* the response is sent and the worker is free again
Reply(s) ==
    /\ phase = "serving"
    /\ reqs[s].pc = "done"
    /\ reqs' = [reqs EXCEPT ![s] = Idle]
    /\ UNCHANGED <<phase, MODEL, stdout, schemaVars, mapperVars>>

\* the process is stopped and started again: the module is imported afresh
Restart ==
    /\ phase = "serving"
    /\ phase' = "boot"
    /\ MODEL' = None
    /\ stdout' = <<>>
    /\ reqs' = [s \in Slots |-> Idle]
    /\ UNCHANGED <<schemaVars, mapperVars>>

(***************************************************************************)
(* The pipeline inside the artifact: BinaryMapper on default, housing and  *)
(* loan, MonthMapper on month, every other column passed through.          *)
(***************************************************************************)
BinaryColumns == <<"default", "housing", "loan">>
MonthColumns == <<"month">>

\* the ColumnTransformer's selection of columns from a one-row frame
SelectColumns(df, cols) ==
    [c \in 1..Len(cols) |-> [name |-> cols[c], values |-> <<df[cols[c]]>>]]

FeatureEncoder(df) ==
    LET bin == BinaryMapper_transform(BinaryMapper_init, SelectColumns(df, BinaryColumns))
        mon == MonthMapper_transform(SelectColumns(df, MonthColumns))
        out == [c \in 1..(Len(bin) + Len(mon)) |->
                   IF c <= Len(bin) THEN bin[c] ELSE mon[c - Len(bin)]]
        mapped == {out[c].name : c \in 1..Len(out)}
    IN  [col \in DOMAIN df |->
            IF col \in mapped
            THEN out[CHOOSE c \in 1..Len(out) : out[c].name = col].values[1]
            ELSE df[col]]

(***************************************************************************)
(* Schema harness: one body through InputFeatures, then through the path   *)
(* predict takes with it.                                                  *)
(***************************************************************************)
SchemaInit ==
    /\ ServerInit
    /\ MapperIdle
    /\ payload \in SchemaPayloads
    /\ verdict = NoVerdict
    /\ encoded = Absent

SchemaValidate ==
    /\ ~verdict.validated
    /\ LET errors == ValidationErrors(payload) IN
         verdict' = [validated |-> TRUE, errors |-> errors,
                     features |-> IF errors = {} THEN InputFeatures(payload)
                                  ELSE Absent]
    /\ UNCHANGED <<payload, encoded, serverVars, mapperVars>>

SchemaEncode ==
    /\ verdict.validated
    /\ verdict.errors = {}
    /\ encoded = Absent
    /\ encoded' = FeatureEncoder(input_df(verdict.features))
    /\ UNCHANGED <<payload, verdict, serverVars, mapperVars>>

SchemaNext == SchemaValidate \/ SchemaEncode

SpecSchema == SchemaInit /\ [][SchemaNext]_vars

(***************************************************************************)
(* Mapper harness: fit and transform of the two transformers on a table.   *)
(***************************************************************************)
MapperInit ==
    /\ ServerInit
    /\ SchemaIdle
    /\ X \in BinaryTables \cup MonthTables
    /\ Xt = <<>>
    /\ last = ""
    /\ categories = BinaryMapper_init
    /\ fit_called = {}

BinaryFit ==
    /\ categories' = BinaryMapper_fit(categories, X)
    /\ fit_called' = fit_called \cup {"BinaryMapper"}
    /\ UNCHANGED <<X, Xt, last, serverVars, schemaVars>>

BinaryTransform ==
    /\ Xt' = BinaryMapper_transform(categories, X)
    /\ last' = "BinaryMapper"
    /\ UNCHANGED <<X, categories, fit_called, serverVars, schemaVars>>

\* fit, lines 53-54: returns self
MonthFit ==
    /\ fit_called' = fit_called \cup {"MonthMapper"}
    /\ UNCHANGED <<X, Xt, last, categories, serverVars, schemaVars>>

\* X.iloc[:, 0] raises IndexError on a frame without columns
MonthTransform ==
    /\ Len(X) >= 1
    /\ Xt' = MonthMapper_transform(X)
    /\ last' = "MonthMapper"
    /\ UNCHANGED <<X, categories, fit_called, serverVars, schemaVars>>

MapperNext == BinaryFit \/ BinaryTransform \/ MonthFit \/ MonthTransform

SpecMapper == MapperInit /\ [][MapperNext]_vars

Next ==
    \/ Load
    \/ \E s \in Slots : Request(s)
    \/ \E s \in Slots : Validate(s)
    \/ \E s \in Slots : home(s)
    \/ \E s \in Slots : predict(s)
    \/ \E s \in Slots : Reply(s)
    \/ Restart

Spec == Init /\ [][Next]_vars

(***************************************************************************)
(* What the specification says, stated on its own terms.                   *)
(***************************************************************************)
\* section 3: the numeric constraints
SpecNumericOk(f, v) ==
    CASE f = "age" -> 18 <= v /\ v <= 120
      [] f = "duration" -> v >= 0
      [] f = "campaign" -> v >= 1
      [] f = "previous" -> v >= 0
      [] OTHER -> TRUE

\* section 3: the closed sets the table spells out (job's twelve values are
\* not listed there)
SpecClosedSet ==
    [marital |-> {"married", "single", "divorced"},
     education |-> {"tertiary", "secondary", "unknown", "primary"},
     default |-> {"yes", "no"},
     housing |-> {"yes", "no"},
     loan |-> {"yes", "no"},
     contact |-> {"unknown", "cellular", "telephone"},
     month |-> {"jan", "feb", "mar", "apr", "may", "jun", "jul", "aug",
                "sep", "oct", "nov", "dec"},
     poutcome |-> {"unknown", "other", "failure", "success"}]

SpecFourteen ==
    {"age", "balance", "duration", "campaign", "previous", "job", "marital",
     "education", "default", "housing", "loan", "contact", "month", "poutcome"}

SpecInvalid(body) ==
    \/ \E f \in SpecFourteen : f \notin DOMAIN body
    \/ \E f \in {"age", "duration", "campaign", "previous"} \cap DOMAIN body :
          ~SpecNumericOk(f, body[f])
    \/ \E f \in DOMAIN SpecClosedSet \cap DOMAIN body : body[f] \notin SpecClosedSet[f]

SpecMonthTable ==
    [jan |-> 1, feb |-> 2, mar |-> 3, apr |-> 4, may |-> 5, jun |-> 6,
     jul |-> 7, aug |-> 8, sep |-> 9, oct |-> 10, nov |-> 11, dec |-> 12]

SpecMonth(v) == IF v \in DOMAIN SpecMonthTable THEN Num(SpecMonthTable[v]) ELSE NaN

SpecBinary(v) == IF v = "yes" THEN Num(1) ELSE IF v = "no" THEN Num(0) ELSE NaN

\* what the load block printed tells how the load went
LoadSucceeded == Len(stdout) > 0 /\ stdout[1] = "Modelo 'rf_pipeline.pkl' carregado com sucesso."
LoadFailed == phase = "serving" /\ Len(stdout) > 0 /\ ~LoadSucceeded

IsModelUnavailable(resp) ==
    /\ resp.status = 500
    /\ DOMAIN resp.body = {"detail"}

\* 1e-6 in probability units
Tolerance == ProbScale \div (10 ^ 6)

Abs(n) == IF n < 0 THEN -n ELSE n

(***************************************************************************)
(* C1.  As claimed: once the load has failed, every finished POST /predict *)
(* call carries the ModelUnavailable error (500) and every finished GET /  *)
(* reports model_loaded false.  This fails: a body that does not validate  *)
(* is answered 422 before predict runs.                                    *)
(***************************************************************************)
C1_EveryPredictIsModelUnavailable ==
    \A s \in Slots :
        (LoadFailed /\ reqs[s].pc = "done") =>
            /\ reqs[s].method = POST => IsModelUnavailable(reqs[s].resp)
            /\ reqs[s].method = GET => reqs[s].resp.body.model_loaded = FALSE

(***************************************************************************)
(* C1, amended.  Once the load has failed the process serves with MODEL    *)
(* unset; every finished POST /predict call whose body validates carries   *)
(* the ModelUnavailable error (500), one whose body does not validate      *)
(* carries the validation error (422), none reaches predict_proba or       *)
(* carries a prediction, and every finished GET / reports model_loaded     *)
(* false.                                                                  *)
(***************************************************************************)
C1_LoadFailureIsPermanent ==
    LoadFailed =>
        /\ MODEL = None
        /\ \A s \in Slots :
              /\ reqs[s].proba_calls = 0
              /\ reqs[s].row = Absent
              /\ reqs[s].pc = "done" =>
                    /\ (reqs[s].method = POST /\ ~SpecInvalid(reqs[s].body))
                          => IsModelUnavailable(reqs[s].resp)
                    /\ (reqs[s].method = POST /\ SpecInvalid(reqs[s].body))
                          => reqs[s].resp.status = 422
                    /\ reqs[s].method = GET
                          => /\ reqs[s].resp.status = 200
                             /\ reqs[s].resp.body.model_loaded = FALSE

C1_Witness ==
    /\ LoadFailed
    /\ \E s, t \in Slots :
          /\ reqs[s].pc = "done" /\ reqs[s].method = POST
          /\ IsModelUnavailable(reqs[s].resp)
          /\ reqs[t].pc = "done" /\ reqs[t].method = GET
          /\ reqs[t].resp.body.model_loaded = FALSE

(***************************************************************************)
(* C2.  A POST /predict whose body misses a field, has a numeric field     *)
(* outside its bound or an enum field outside its closed set never reaches *)
(* the handler: no features object, no row, no predict_proba call, and its *)
(* response is the validation error, whatever MODEL is.                    *)
(***************************************************************************)
C2_InvalidNeverReachesInference ==
    \A s \in Slots :
        (reqs[s].method = POST /\ SpecInvalid(reqs[s].body)) =>
            /\ reqs[s].pc \in {"validate", "done"}
            /\ reqs[s].features = Absent
            /\ reqs[s].row = Absent
            /\ reqs[s].proba_calls = 0
            /\ reqs[s].pc = "done" =>
                  /\ reqs[s].resp.status = 422
                  /\ reqs[s].resp.body.errors # {}

C2_Witness ==
    /\ MODEL = Pipeline
    /\ \E s, t \in Slots :
          /\ reqs[s].pc = "done" /\ reqs[s].method = POST
          /\ "housing" \notin DOMAIN reqs[s].body
          /\ reqs[s].resp.status = 422
          /\ reqs[t].pc = "done" /\ reqs[t].method = POST
          /\ "month" \in DOMAIN reqs[t].body
          /\ reqs[t].body["month"] = "january"
          /\ reqs[t].resp.status = 422

(***************************************************************************)
(* C3.  Validation reports an error on a numeric field exactly when the    *)
(* value is outside the declared range: age in 18..120, campaign >= 1,     *)
(* duration >= 0, previous >= 0, balance unconstrained.                    *)
(***************************************************************************)
C3_NumericRangesExact ==
    verdict.validated =>
        \A f \in NumericFields \cap DOMAIN payload :
            (\A e \in verdict.errors : e[1] # f) <=> SpecNumericOk(f, payload[f])

C3_Witness ==
    /\ verdict.validated
    /\ verdict.errors = {}
    /\ payload["age"] = 120
    /\ payload["campaign"] = 1
    /\ payload["duration"] = 0
    /\ payload["previous"] = 0
    /\ payload["balance"] = -1000000

(***************************************************************************)
(* C4.  GET / can always be served, and its response is                    *)
(* {status: "ok", model_loaded, api_version: "1.0.0"} with success status, *)
(* model_loaded being true exactly when the load at startup succeeded.     *)
(***************************************************************************)
C4_HomeAlwaysOk ==
    \A s \in Slots :
        reqs[s].method = GET =>
            /\ reqs[s].pc = "handler" => ENABLED home(s)
            /\ reqs[s].pc = "done" =>
                  /\ reqs[s].resp.status = 200
                  /\ reqs[s].resp.body =
                        [status |-> "ok", model_loaded |-> LoadSucceeded,
                         api_version |-> "1.0.0"]

C4_Witness ==
    \E s, t \in Slots :
        /\ reqs[s].pc = "done" /\ reqs[s].method = GET
        /\ reqs[s].resp.body.model_loaded = FALSE
        /\ reqs[t].pc = "done" /\ reqs[t].method = POST
        /\ reqs[t].resp.status = 500

(***************************************************************************)
(* C5.  BinaryMapper.transform returns the same columns, by name and in    *)
(* order, with the same number of rows, every "yes" as 1, every "no" as 0  *)
(* and every other value as NaN, whether or not fit was called.            *)
(***************************************************************************)
C5_BinaryMapperTransform ==
    last = "BinaryMapper" =>
        /\ Len(Xt) = Len(X)
        /\ \A c \in 1..Len(X) :
              /\ Xt[c].name = X[c].name
              /\ Len(Xt[c].values) = Len(X[c].values)
              /\ \A r \in 1..Len(X[c].values) :
                    Xt[c].values[r] = SpecBinary(X[c].values[r])

C5_Witness ==
    /\ last = "BinaryMapper"
    /\ "BinaryMapper" \in fit_called
    /\ Len(X) = 3
    /\ Xt[1].values = <<Num(1)>>
    /\ Xt[2].values = <<Num(0)>>
    /\ Xt[3].values = <<NaN>>

(***************************************************************************)
(* C6.  MonthMapper.transform returns one column, the first column's,      *)
(* with jan..dec as 1..12 in calendar order and any other string as NaN;   *)
(* the table maps the twelve abbreviations to twelve distinct integers.    *)
(***************************************************************************)
C6_MonthMapperTransform ==
    /\ DOMAIN month_map = DOMAIN SpecMonthTable
    /\ {month_map[m] : m \in DOMAIN month_map} = 1..12
    /\ \A m, n \in DOMAIN month_map : m # n => month_map[m] # month_map[n]
    /\ last = "MonthMapper" =>
          /\ Len(Xt) = 1
          /\ Xt[1].name = X[1].name
          /\ Len(Xt[1].values) = Len(X[1].values)
          /\ \A r \in 1..Len(X[1].values) :
                Xt[1].values[r] = SpecMonth(X[1].values[r])

C6_Witness ==
    /\ last = "MonthMapper"
    /\ Len(X) = 2
    /\ X[1].values = <<"dec">>
    /\ Xt = <<[name |-> "month", values |-> <<Num(12)>>]>>

(***************************************************************************)
(* C7.  With the model loaded, a finished POST /predict whose body is      *)
(* valid carries a prediction_probability whose no is element 0 and yes    *)
(* element 1 of the classifier's vector, and no + yes is within 1e-6 of 1. *)
(***************************************************************************)
C7_ProbabilitiesSumToOne ==
    \A s \in Slots :
        (/\ reqs[s].pc = "done"
         /\ reqs[s].method = POST
         /\ MODEL # None
         /\ ~SpecInvalid(reqs[s].body)) =>
            /\ reqs[s].resp.status = 200
            /\ LET pp == reqs[s].resp.body.prediction_probability IN
                 /\ pp.no = reqs[s].probas[1]
                 /\ pp.yes = reqs[s].probas[2]
                 /\ Abs(pp.no + pp.yes - ProbScale) <= Tolerance

C7_Witness ==
    \E s \in Slots :
        /\ reqs[s].pc = "done"
        /\ reqs[s].method = POST
        /\ reqs[s].resp.status = 200
        /\ reqs[s].resp.body.prediction_probability.yes = 6239001

(***************************************************************************)
(* C8.  The row handed to the classifier has exactly the fourteen fields   *)
(* and day and pdays; the fourteen carry the values of the request body,   *)
(* day is 1 and pdays is -1 whatever the body says about them; and every   *)
(* prediction was made from such a row.                                    *)
(***************************************************************************)
C8_RowIsFieldsPlusDayPdays ==
    \A s \in Slots :
        /\ reqs[s].proba_calls > 0 => reqs[s].row # Absent
        /\ reqs[s].row # Absent =>
              /\ DOMAIN reqs[s].row = SpecFourteen \cup {"day", "pdays"}
              /\ \A f \in SpecFourteen : reqs[s].row[f] = reqs[s].body[f]
              /\ reqs[s].row["day"] = 1
              /\ reqs[s].row["pdays"] = -1

C8_Witness ==
    \E s \in Slots :
        /\ reqs[s].row # Absent
        /\ reqs[s].proba_calls = 1
        /\ "day" \in DOMAIN reqs[s].body
        /\ reqs[s].body["day"] = 17
        /\ reqs[s].body["pdays"] = 300

(***************************************************************************)
(* C9.  While the process serves, no step of any handler changes MODEL or  *)
(* runs the load block again: MODEL is written at startup only.            *)
(***************************************************************************)
C9_ModelWrittenOnlyAtStartup ==
    [][(phase = "serving" /\ phase' = "serving") =>
          (MODEL' = MODEL /\ stdout' = stdout)]_vars

C9_Witness ==
    /\ MODEL = Pipeline
    /\ \E s, t \in Slots :
          /\ reqs[s].pc = "done" /\ reqs[s].method = POST
          /\ reqs[s].resp.status = 200
          /\ reqs[t].pc = "handler" /\ reqs[t].method = POST

(***************************************************************************)
(* C10.  For every body that passes validation, default, housing and loan  *)
(* are keys of the Binary Mapper's table and month is a key of the Month   *)
(* Mapper's, so the encoded row holds 0 or 1 for the former and 1..12 for  *)
(* the latter, never NaN.                                                  *)
(***************************************************************************)
C10_ValidatedNeverEncodesToNaN ==
    /\ (verdict.validated /\ verdict.errors = {}) =>
          /\ \A f \in {"default", "housing", "loan"} :
                payload[f] \in DOMAIN BinaryMapper_init
          /\ payload["month"] \in DOMAIN month_map
    /\ encoded # Absent =>
          /\ \A f \in {"default", "housing", "loan"} :
                encoded[f] \in {Num(0), Num(1)}
          /\ encoded["month"] \in {Num(i) : i \in 1..12}

C10_Witness ==
    /\ encoded # Absent
    /\ encoded["default"] = Num(1)
    /\ encoded["housing"] = Num(0)
    /\ encoded["month"] = Num(12)

=============================================================================
